---------------------------- MODULE Spec2Model ----------------------------
(***************************************************************************)
(* Model of the information-coding pipeline of codec.py (Huffman coding,   *)
(* Hamming(7,4), the seeded corruption simulator, run_full_pipeline) and   *)
(* of the two request entry points that call it (api/process.py and        *)
(* app_enhanced.py).                                                       *)
(*                                                                         *)
(* Representation                                                          *)
(*   - a str is a sequence of one-character strings; a bit string is a     *)
(*     sequence over {"0", "1"}; a List[int] of bits is a sequence over    *)
(*     {0, 1};                                                             *)
(*   - HuffmanNode objects live in an arena `nodes` (a sequence of         *)
(*     records) and are referred to by their index; index 0 is None;       *)
(*   - a dict is a function whose DOMAIN is the key set; where the code    *)
(*     depends on the insertion order (probabilities.items()), the dict    *)
(*     is the sequence of its items in insertion order;                    *)
(*   - a probability count/total is kept as its numerator `count`: every   *)
(*     node of one tree has the same denominator len(text), so `<` on the  *)
(*     numerators is `<` on the probabilities.                             *)
(***************************************************************************)
EXTENDS Integers, Sequences, FiniteSets, TLC

(***************************************************************************)
(* Bounds of the model.                                                    *)
(***************************************************************************)
MaxLen == 4       \* longest text of the pipeline runs

Alphabet == {"A", "B", "C", " "}    \* the characters a text may use

None == 0                 \* the None node reference
NoSymbol == "None"        \* HuffmanNode.symbol is None

RECURSIVE SeqsUpTo(_, _)
SeqsUpTo(S, n) ==
    IF n = 0 THEN {<<>>}
    ELSE LET shorter == SeqsUpTo(S, n - 1)
         IN  shorter \cup {Append(s, x) : s \in {q \in shorter : Len(q) = n - 1}, x \in S}

\* the list with the elements f[1], ..., f[n], as a tuple
List(f) == f \o <<>>

EmptyDict == [x \in {} |-> <<>>]

\* d[k] = v
DictSet(d, k, v) == (k :> v) @@ d

(***************************************************************************)
(* HuffmanNode                                                             *)
(***************************************************************************)
HuffmanNode(symbol, prob, left, right) ==
    [symbol |-> symbol, prob |-> prob, left |-> left, right |-> right]

\* HuffmanNode.__lt__ on the nodes a and b of the arena
NodeLt(nodes, a, b) == nodes[a].prob < nodes[b].prob

(***************************************************************************)
(* compute_symbol_probabilities: the items of the returned dict, in the    *)
(* insertion order of collections.Counter (first occurrence in the text).  *)
(***************************************************************************)
CountOf(text, sym) == Cardinality({i \in 1..Len(text) : text[i] = sym})

RECURSIVE CounterKeys(_, _, _)
CounterKeys(text, i, keys) ==
    IF i > Len(text) THEN keys
    ELSE IF \E j \in 1..Len(keys) : keys[j] = text[i]
         THEN CounterKeys(text, i + 1, keys)
         ELSE CounterKeys(text, i + 1, Append(keys, text[i]))

compute_symbol_probabilities(text) ==
    IF text = <<>> THEN <<>>
    ELSE LET keys == CounterKeys(text, 1, <<>>)
         IN  List([i \in 1..Len(keys) |-> [symbol |-> keys[i], prob |-> CountOf(text, keys[i])]])

(***************************************************************************)
(* heapq, on a list of node references ordered by HuffmanNode.__lt__.      *)
(* Positions are 0-based as in the library; heap[pos + 1] is the element.  *)
(***************************************************************************)
RECURSIVE SiftDownLoop(_, _, _, _, _)
SiftDownLoop(nodes, heap, startpos, pos, newitem) ==
    IF pos > startpos
    THEN LET parentpos == (pos - 1) \div 2
             parent == heap[parentpos + 1]
         IN  IF NodeLt(nodes, newitem, parent)
             THEN SiftDownLoop(nodes, [heap EXCEPT ![pos + 1] = parent],
                               startpos, parentpos, newitem)
             ELSE [heap EXCEPT ![pos + 1] = newitem]
    ELSE [heap EXCEPT ![pos + 1] = newitem]

siftdown(nodes, heap, startpos, pos) ==
    SiftDownLoop(nodes, heap, startpos, pos, heap[pos + 1])

RECURSIVE SiftUpLoop(_, _, _, _, _)
SiftUpLoop(nodes, heap, startpos, pos, newitem) ==
    LET endpos == Len(heap)
        childpos == 2 * pos + 1
        rightpos == childpos + 1
        smaller == IF rightpos < endpos
                      /\ ~NodeLt(nodes, heap[childpos + 1], heap[rightpos + 1])
                   THEN rightpos ELSE childpos
    IN  IF childpos < endpos
        THEN SiftUpLoop(nodes, [heap EXCEPT ![pos + 1] = heap[smaller + 1]],
                        startpos, smaller, newitem)
        ELSE siftdown(nodes, [heap EXCEPT ![pos + 1] = newitem], startpos, pos)

siftup(nodes, heap, pos) == SiftUpLoop(nodes, heap, pos, pos, heap[pos + 1])

RECURSIVE HeapifyLoop(_, _, _)
HeapifyLoop(nodes, heap, i) ==
    IF i < 0 THEN heap ELSE HeapifyLoop(nodes, siftup(nodes, heap, i), i - 1)

heapify(nodes, heap) == HeapifyLoop(nodes, heap, (Len(heap) \div 2) - 1)

\* heappop: [item |-> the smallest node, heap |-> the heap without it]
heappop(nodes, heap) ==
    LET lastelt == heap[Len(heap)]
        rest == SubSeq(heap, 1, Len(heap) - 1)
    IN  IF rest # <<>>
        THEN [item |-> rest[1],
              heap |-> siftup(nodes, [rest EXCEPT ![1] = lastelt], 0)]
        ELSE [item |-> lastelt, heap |-> rest]

heappush(nodes, heap, item) ==
    siftdown(nodes, Append(heap, item), 0, Len(heap))

(***************************************************************************)
(* build_huffman_tree: [nodes |-> the arena, root |-> the returned node].  *)
(***************************************************************************)
RECURSIVE MergeLoop(_, _)
MergeLoop(nodes, heap) ==
    IF Len(heap) > 1
    THEN LET pop1 == heappop(nodes, heap)
             pop2 == heappop(nodes, pop1.heap)
             n1 == pop1.item
             n2 == pop2.item
             parent == HuffmanNode(NoSymbol, nodes[n1].prob + nodes[n2].prob, n1, n2)
             nodes2 == Append(nodes, parent)
         IN  MergeLoop(nodes2, heappush(nodes2, pop2.heap, Len(nodes2)))
    ELSE [nodes |-> nodes, root |-> heap[1]]

\* build_huffman_tree without the special case of a single symbol
build_huffman_tree_unwrapped(probabilities) ==
    LET nodes == List([i \in 1..Len(probabilities) |->
                    HuffmanNode(probabilities[i].symbol, probabilities[i].prob, None, None)])
        heap == heapify(nodes, List([i \in 1..Len(probabilities) |-> i]))
    IN  IF Len(probabilities) = 0 THEN [nodes |-> <<>>, root |-> None]
        ELSE MergeLoop(nodes, heap)

build_huffman_tree(probabilities) ==
    LET nodes == List([i \in 1..Len(probabilities) |->
                    HuffmanNode(probabilities[i].symbol, probabilities[i].prob, None, None)])
        heap == heapify(nodes, List([i \in 1..Len(probabilities) |-> i]))
    IN  IF Len(probabilities) = 0 THEN [nodes |-> <<>>, root |-> None]
        ELSE IF Len(heap) = 1
        THEN [nodes |-> Append(nodes, HuffmanNode(NoSymbol, nodes[heap[1]].prob, heap[1], None)),
              root |-> Len(nodes) + 1]
        ELSE MergeLoop(nodes, heap)

(***************************************************************************)
(* build_huffman_codes: the dict symbol -> code.                           *)
(***************************************************************************)
RECURSIVE traverse(_, _, _, _)
\* the two recursive calls of an internal node, codes being the dict so far
TraverseLeft(nodes, node, prefix, codes) ==
    IF nodes[node].left # None
    THEN traverse(nodes, nodes[node].left, Append(prefix, "0"), codes)
    ELSE codes

\* TraverseRight descending with "0", as the left branch does
TraverseRight_zero(nodes, node, prefix, codes) ==
    IF nodes[node].right # None
    THEN traverse(nodes, nodes[node].right, Append(prefix, "0"), codes)
    ELSE codes

TraverseRight(nodes, node, prefix, codes) ==
    IF nodes[node].right # None
    THEN traverse(nodes, nodes[node].right, Append(prefix, "1"), codes)
    ELSE codes

\* traverse giving every leaf its path followed by one more "0"
traverse_longer(nodes, node, prefix, codes) ==
    IF nodes[node].symbol # NoSymbol
    THEN DictSet(codes, nodes[node].symbol, Append(prefix, "0"))
    ELSE TraverseRight(nodes, node, prefix, TraverseLeft(nodes, node, prefix, codes))

traverse(nodes, node, prefix, codes) ==
    IF nodes[node].symbol # NoSymbol
    THEN DictSet(codes, nodes[node].symbol, IF prefix # <<>> THEN prefix ELSE <<"0">>)
    ELSE TraverseRight(nodes, node, prefix, TraverseLeft(nodes, node, prefix, codes))

build_huffman_codes(tree) ==
    IF tree.root = None THEN EmptyDict
    ELSE traverse(tree.nodes, tree.root, <<>>, EmptyDict)

(***************************************************************************)
(* huffman_encode, huffman_decode, huffman_decode_safe                     *)
(***************************************************************************)
RECURSIVE JoinCodes(_, _, _)
JoinCodes(text, codes, i) ==
    IF i > Len(text) THEN <<>>
    ELSE codes[text[i]] \o JoinCodes(text, codes, i + 1)

huffman_encode(text, codes) == JoinCodes(text, codes, 1)

Child(nodes, node, b) == IF b = "0" THEN nodes[node].left ELSE nodes[node].right

RECURSIVE DecodeLoop(_, _, _, _, _)
DecodeLoop(tree, bits, i, node, result_chars) ==
    IF i > Len(bits) THEN result_chars
    ELSE LET next == Child(tree.nodes, node, bits[i])
         IN  IF next = None THEN result_chars
             ELSE IF tree.nodes[next].symbol # NoSymbol
             THEN DecodeLoop(tree, bits, i + 1, tree.root,
                             Append(result_chars, tree.nodes[next].symbol))
             ELSE DecodeLoop(tree, bits, i + 1, next, result_chars)

huffman_decode(bits, tree) ==
    IF tree.root = None THEN <<>>
    ELSE DecodeLoop(tree, bits, 1, tree.root, <<>>)

\* The locals of huffman_decode_safe at its return: the text decoded so far,
\* the flag, the node the traversal stands on (None after a missing child)
\* and the number of bits taken from the sequence.
RECURSIVE SafeLoop(_, _, _, _, _)
\* SafeLoop leaving the loop at a missing child as huffman_decode does, and
\* so returning True
SafeLoop_break(tree, bits, i, node, result_chars) ==
    IF i > Len(bits)
    THEN [text |-> result_chars, ok |-> TRUE, node |-> node, taken |-> Len(bits)]
    ELSE LET next == Child(tree.nodes, node, bits[i])
         IN  IF next = None
             THEN [text |-> result_chars, ok |-> TRUE, node |-> None, taken |-> i]
             ELSE IF tree.nodes[next].symbol # NoSymbol
             THEN SafeLoop(tree, bits, i + 1, tree.root,
                           Append(result_chars, tree.nodes[next].symbol))
             ELSE SafeLoop(tree, bits, i + 1, next, result_chars)

\* SafeLoop returning False when the bits end inside a code
SafeLoop_whole_codes(tree, bits, i, node, result_chars) ==
    IF i > Len(bits)
    THEN [text |-> result_chars, ok |-> (node = tree.root), node |-> node, taken |-> Len(bits)]
    ELSE LET next == Child(tree.nodes, node, bits[i])
         IN  IF next = None
             THEN [text |-> result_chars, ok |-> FALSE, node |-> None, taken |-> i]
             ELSE IF tree.nodes[next].symbol # NoSymbol
             THEN SafeLoop(tree, bits, i + 1, tree.root,
                           Append(result_chars, tree.nodes[next].symbol))
             ELSE SafeLoop(tree, bits, i + 1, next, result_chars)

SafeLoop(tree, bits, i, node, result_chars) ==
    IF i > Len(bits)
    THEN [text |-> result_chars, ok |-> TRUE, node |-> node, taken |-> Len(bits)]
    ELSE LET next == Child(tree.nodes, node, bits[i])
         IN  IF next = None
             THEN [text |-> result_chars, ok |-> FALSE, node |-> None, taken |-> i]
             ELSE IF tree.nodes[next].symbol # NoSymbol
             THEN SafeLoop(tree, bits, i + 1, tree.root,
                           Append(result_chars, tree.nodes[next].symbol))
             ELSE SafeLoop(tree, bits, i + 1, next, result_chars)

\* huffman_decode_safe_run reporting a failure when there is no tree
huffman_decode_safe_run_strict(bits, tree) ==
    IF tree.root = None
    THEN [text |-> <<>>, ok |-> FALSE, node |-> None, taken |-> 0]
    ELSE SafeLoop(tree, bits, 1, tree.root, <<>>)

huffman_decode_safe_run(bits, tree) ==
    IF tree.root = None
    THEN [text |-> <<>>, ok |-> TRUE, node |-> None, taken |-> 0]
    ELSE SafeLoop(tree, bits, 1, tree.root, <<>>)

huffman_decode_safe(bits, tree) ==
    LET run == huffman_decode_safe_run(bits, tree) IN <<run.text, run.ok>>

(***************************************************************************)
(* _bitstr_to_int_list, _int_list_to_bitstr and Python's int() on one      *)
(* character of a bit string.                                              *)
(***************************************************************************)
bitstr_to_int_list(bits) == List([i \in 1..Len(bits) |-> IF bits[i] = "1" THEN 1 ELSE 0])

int_list_to_bitstr(bits) == List([i \in 1..Len(bits) |-> IF bits[i] # 0 THEN "1" ELSE "0"])

IntOfChar(ch) == IF ch = "1" THEN 1 ELSE 0

Xor(a, b) == (a + b) % 2

Zeros(n) == List([i \in 1..n |-> "0"])

\* the fault raised by the Hamming decoders on a length that is no multiple of 7
ValueError == <<"ValueError">>

(***************************************************************************)
(* hamming_7_4_encode: <<encoded bit string, pad_bits>>                    *)
(***************************************************************************)
RECURSIVE EncodeBlocks(_, _, _)
EncodeBlocks(padded, i, encoded_bits) ==
    IF i >= Len(padded) THEN encoded_bits
    ELSE LET d1 == IntOfChar(padded[i + 1])
             d2 == IntOfChar(padded[i + 2])
             d3 == IntOfChar(padded[i + 3])
             d4 == IntOfChar(padded[i + 4])
             p1 == Xor(Xor(d1, d2), d4)
             p2 == Xor(Xor(d1, d3), d4)
             p4 == Xor(Xor(d2, d3), d4)
             codeword == <<p1, p2, d1, p4, d2, d3, d4>>
         IN  EncodeBlocks(padded, i + 4, encoded_bits \o codeword)

\* hamming_7_4_encode padding with 4 - len % 4 bits, also when len % 4 = 0
hamming_7_4_encode_pad4(bitstring) ==
    IF bitstring = <<>> THEN <<<<>>, 0>>
    ELSE LET pad_bits == 4 - (Len(bitstring) % 4)
             bitstring_padded == bitstring \o Zeros(pad_bits)
         IN  <<int_list_to_bitstr(EncodeBlocks(bitstring_padded, 0, <<>>)), pad_bits>>

hamming_7_4_encode(bitstring) ==
    IF bitstring = <<>> THEN <<<<>>, 0>>
    ELSE LET pad_bits == (4 - (Len(bitstring) % 4)) % 4
             bitstring_padded == bitstring \o Zeros(pad_bits)
         IN  <<int_list_to_bitstr(EncodeBlocks(bitstring_padded, 0, <<>>)), pad_bits>>

(***************************************************************************)
(* hamming_7_4_decode and hamming_7_4_decode_no_correction                 *)
(***************************************************************************)
\* data_bits[:-pad_bits] when pad_bits > 0
StripPad(data_bits, pad_bits) ==
    IF pad_bits > 0
    THEN SubSeq(data_bits, 1, IF Len(data_bits) > pad_bits THEN Len(data_bits) - pad_bits ELSE 0)
    ELSE data_bits

\* DecodeBlocks with s4 shifted by one place instead of two
RECURSIVE DecodeBlocks_shift(_, _, _)
DecodeBlocks_shift(bits, i, data_bits) ==
    IF i >= Len(bits) THEN data_bits
    ELSE LET s1 == Xor(Xor(Xor(bits[i + 1], bits[i + 3]), bits[i + 5]), bits[i + 7])
             s2 == Xor(Xor(Xor(bits[i + 2], bits[i + 3]), bits[i + 6]), bits[i + 7])
             s4 == Xor(Xor(Xor(bits[i + 4], bits[i + 5]), bits[i + 6]), bits[i + 7])
             error_pos == s1 + (s2 * 2) + (s4 * 2)
             idx == i + error_pos - 1
             fixed == IF error_pos # 0
                      THEN [bits EXCEPT ![idx + 1] = Xor(@, 1)]
                      ELSE bits
         IN  DecodeBlocks_shift(fixed, i + 7,
                 data_bits \o <<fixed[i + 3], fixed[i + 5], fixed[i + 6], fixed[i + 7]>>)

\* DecodeBlocks that computes the syndrome and corrects nothing
RECURSIVE DecodeBlocks_nofix(_, _, _)
DecodeBlocks_nofix(bits, i, data_bits) ==
    IF i >= Len(bits) THEN data_bits
    ELSE DecodeBlocks_nofix(bits, i + 7,
             data_bits \o <<bits[i + 3], bits[i + 5], bits[i + 6], bits[i + 7]>>)

RECURSIVE DecodeBlocks(_, _, _)
DecodeBlocks(bits, i, data_bits) ==
    IF i >= Len(bits) THEN data_bits
    ELSE LET s1 == Xor(Xor(Xor(bits[i + 1], bits[i + 3]), bits[i + 5]), bits[i + 7])
             s2 == Xor(Xor(Xor(bits[i + 2], bits[i + 3]), bits[i + 6]), bits[i + 7])
             s4 == Xor(Xor(Xor(bits[i + 4], bits[i + 5]), bits[i + 6]), bits[i + 7])
             error_pos == s1 + (s2 * 2) + (s4 * 4)
             idx == i + error_pos - 1
             fixed == IF error_pos # 0
                      THEN [bits EXCEPT ![idx + 1] = Xor(@, 1)]
                      ELSE bits
         IN  DecodeBlocks(fixed, i + 7,
                          data_bits \o <<fixed[i + 3], fixed[i + 5], fixed[i + 6], fixed[i + 7]>>)

hamming_7_4_decode(encoded_bits, pad_bits) ==
    IF encoded_bits = <<>> THEN <<>>
    ELSE IF Len(encoded_bits) % 7 # 0 THEN ValueError
    ELSE int_list_to_bitstr(
             StripPad(DecodeBlocks(bitstr_to_int_list(encoded_bits), 0, <<>>), pad_bits))

RECURSIVE ExtractBlocks(_, _, _)
ExtractBlocks(bits, i, data_bits) ==
    IF i >= Len(bits) THEN data_bits
    ELSE ExtractBlocks(bits, i + 7,
                       data_bits \o <<bits[i + 3], bits[i + 5], bits[i + 6], bits[i + 7]>>)

hamming_7_4_decode_no_correction(encoded_bits, pad_bits) ==
    IF encoded_bits = <<>> THEN <<>>
    ELSE IF Len(encoded_bits) % 7 # 0 THEN ValueError
    ELSE int_list_to_bitstr(
             StripPad(ExtractBlocks(bitstr_to_int_list(encoded_bits), 0, <<>>), pad_bits))

(***************************************************************************)
(* The generator of module random, shared by every caller in the process.  *)
(* Its state is the seed last given to random.seed and the number of       *)
(* 32-bit words taken since.  MTWords(seed)[i] is the upper half (16 bits) *)
(* of the i-th word the Mersenne Twister yields after random.seed(seed);   *)
(* getrandbits(k), k <= 16, is the top k bits of the next word.            *)
(***************************************************************************)
DefaultSeed == 123
PipelineSeed == 2024
DefaultInterval == 50

MTWords(seed) ==
    CASE seed = 123  -> <<3431, 17542, 5713, 50394, 26688, 17468,
                          7058, 54952, 59060, 57332, 2500, 24846>>
      [] seed = 2024 -> <<30807, 11908, 47727, 37902, 19906, 13120,
                          58149, 47416, 26875, 49624, 46964, 49717>>

Seeds == {DefaultSeed, PipelineSeed}

Unseeded == [seed |-> 0, pos |-> 0]

random_seed(seed) == [seed |-> seed, pos |-> 0]

RECURSIVE Pow2(_)
Pow2(n) == IF n = 0 THEN 1 ELSE 2 * Pow2(n - 1)

RECURSIVE BitLength(_)
BitLength(n) == IF n = 0 THEN 0 ELSE 1 + BitLength(n \div 2)

CanDraw(rng) == rng.seed \in Seeds /\ rng.pos < Len(MTWords(rng.seed))

\* getrandbits(k): [value, rng]
getrandbits(rng, k) ==
    [value |-> MTWords(rng.seed)[rng.pos + 1] \div Pow2(16 - k),
     rng |-> [rng EXCEPT !.pos = @ + 1]]

\* _randbelow(n): draw k = n.bit_length() bits until the value is below n
RECURSIVE randbelow(_, _)
randbelow(rng, n) ==
    LET draw == getrandbits(rng, BitLength(n))
    IN  IF draw.value >= n THEN randbelow(draw.rng, n) ELSE draw

\* randint(a, b) == a + _randbelow(b - a + 1)
randint(rng, a, b) ==
    LET draw == randbelow(rng, b - a + 1)
    IN  [value |-> a + draw.value, rng |-> draw.rng]

Max(a, b) == IF a >= b THEN a ELSE b

FlipChar(ch) == IF ch = "1" THEN "0" ELSE "1"

\* for i in range(start_index, len(bits), interval): bits[i] = flipped
RECURSIVE FlipLoop(_, _, _)
FlipLoop(bits, i, interval) ==
    IF i >= Len(bits) THEN bits
    ELSE FlipLoop([bits EXCEPT ![i + 1] = FlipChar(@)], i + interval, interval)

(***************************************************************************)
(* add_errors run as one step on the generator rng: the returned string,   *)
(* the generator it leaves behind, and its local start_index (-1 when the  *)
(* call returns before drawing).                                           *)
(***************************************************************************)
\* add_errors seeding the generator only when nobody has seeded it yet
add_errors_run_seed_once(bitstring, interval, seed, rng) ==
    IF bitstring = <<>> \/ interval <= 0
    THEN [result |-> bitstring, rng |-> rng, start_index |-> -1]
    ELSE LET seeded == IF rng = Unseeded THEN random_seed(seed) ELSE rng
             draw == IF interval > 1
                     THEN randint(seeded, 0, Max(0, interval - 1))
                     ELSE [value |-> 0, rng |-> seeded]
         IN  [result |-> FlipLoop(bitstring, draw.value, interval),
              rng |-> draw.rng,
              start_index |-> draw.value]

add_errors_run(bitstring, interval, seed, rng) ==
    IF bitstring = <<>> \/ interval <= 0
    THEN [result |-> bitstring, rng |-> rng, start_index |-> -1]
    ELSE LET seeded == random_seed(seed)
             draw == IF interval > 1
                     THEN randint(seeded, 0, Max(0, interval - 1))
                     ELSE [value |-> 0, rng |-> seeded]
         IN  [result |-> FlipLoop(bitstring, draw.value, interval),
              rng |-> draw.rng,
              start_index |-> draw.value]

\* add_errors called with a generator no other caller touches meanwhile
add_errors(bitstring, interval, seed) ==
    add_errors_run(bitstring, interval, seed, Unseeded).result

(***************************************************************************)
(* State.                                                                  *)
(*   frame  the locals of each thread that serves one call of              *)
(*          run_full_pipeline, directly or through a request handler       *)
(*   rng    the generator of module random, global to the process          *)
(*   ecc    the locals of a caller that encodes a bit string with          *)
(*          Hamming(7,4), sends it over a channel and decodes it           *)
(*   dec    the locals of a caller of huffman_decode_safe                  *)
(*   ae     the last two calls of a caller of add_errors                   *)
(***************************************************************************)
VARIABLES frame, rng, ecc, dec, ae

vars == <<frame, rng, ecc, dec, ae>>

Threads == {1, 2}

Bit == {"0", "1"}

IdleFrame ==
    [pc |-> "idle", entry |-> "none", data |-> [text |-> <<>>, error_interval |-> <<>>],
     text |-> <<>>, error_interval |-> 0,
     probs |-> <<>>, root |-> [nodes |-> <<>>, root |-> None], codes |-> EmptyDict,
     encoded_bits |-> <<>>, decoded_text |-> <<>>,
     hamming_bits |-> <<>>, pad_bits |-> 0,
     bits |-> <<>>, start_index |-> -1, corrupted_bits |-> <<>>,
     corrupted_data_bits |-> <<>>, corrupted_decoded_text |-> <<>>,
     corrupted_decode_ok |-> FALSE,
     recovered_bits |-> <<>>, recovered_decoded_text |-> <<>>,
     recovered_text_ok |-> FALSE, huffman_ok |-> FALSE, hamming_ok |-> FALSE,
     status |-> 0]

\* a direct call run_full_pipeline(text, error_interval)
CallFrame(text, error_interval) ==
    [IdleFrame EXCEPT !.pc = "part1", !.entry = "direct",
                      !.text = text, !.error_interval = error_interval]

\* a POST request whose JSON body is data, received by entry point entry
RequestFrame(entry, data) ==
    [IdleFrame EXCEPT !.pc = "validate", !.entry = entry, !.data = data]

IdleEcc == [pc |-> "idle", B |-> <<>>, E |-> <<>>, pad |-> 0, flips |-> <<>>,
            R |-> <<>>, D |-> <<>>]
IdleDec == [pc |-> "idle", tree |-> [nodes |-> <<>>, root |-> None], codes |-> EmptyDict,
            bits |-> <<>>, run |-> [text |-> <<>>, ok |-> FALSE, node |-> None, taken |-> 0]]
NoCall == [bits |-> <<>>, interval |-> 0, seed |-> 0, result |-> <<>>, start_index |-> -1]
NoSummary == [interval |-> 0, seed |-> 0, len |-> 0, start_index |-> -1, flipped |-> {}]
IdleAe == [pc |-> "idle", prev |-> NoSummary, last |-> NoCall]

(***************************************************************************)
(* run_full_pipeline, one action per part; add_errors is split where it    *)
(* touches the shared generator: random.seed, each getrandbits of          *)
(* random.randint, and the flipping loop on its own list.                  *)
(***************************************************************************)
\* Part 1
Part1(t) ==
    /\ frame[t].pc = "part1"
    /\ frame' = [frame EXCEPT ![t].probs = compute_symbol_probabilities(frame[t].text),
                              ![t].pc = "huffman"]
    /\ UNCHANGED <<rng, ecc, dec, ae>>

\* Parts 2-3
Huffman(t) ==
    /\ frame[t].pc = "huffman"
    /\ LET f == frame[t]
           root == build_huffman_tree(f.probs)
           codes == build_huffman_codes(root)
           encoded_bits == IF f.text # <<>> THEN huffman_encode(f.text, codes) ELSE <<>>
           decoded_text == huffman_decode(encoded_bits, root)
       IN  frame' = [frame EXCEPT ![t].root = root, ![t].codes = codes,
                                  ![t].encoded_bits = encoded_bits,
                                  ![t].decoded_text = decoded_text,
                                  ![t].pc = "part4"]
    /\ UNCHANGED <<rng, ecc, dec, ae>>

\* Part 4
HammingEncode(t) ==
    /\ frame[t].pc = "part4"
    /\ LET enc == hamming_7_4_encode(frame[t].encoded_bits)
       IN  frame' = [frame EXCEPT ![t].hamming_bits = enc[1], ![t].pad_bits = enc[2],
                                  ![t].pc = "add_errors"]
    /\ UNCHANGED <<rng, ecc, dec, ae>>

\* add_errors(hamming_bits, interval=error_interval, seed=2024) up to random.seed
AddErrorsSeed(t) ==
    /\ frame[t].pc = "add_errors"
    /\ LET f == frame[t]
       IN  IF f.hamming_bits = <<>> \/ f.error_interval <= 0
           THEN /\ frame' = [frame EXCEPT ![t].corrupted_bits = f.hamming_bits,
                                          ![t].pc = "part5"]
                /\ rng' = rng
           ELSE /\ rng' = random_seed(PipelineSeed)
                /\ frame' = [frame EXCEPT
                       ![t].bits = f.hamming_bits,
                       ![t].start_index = IF f.error_interval > 1 THEN -1 ELSE 0,
                       ![t].pc = IF f.error_interval > 1 THEN "draw" ELSE "flip"]
    /\ UNCHANGED <<ecc, dec, ae>>

\* one getrandbits of random.randint(0, max(0, interval - 1))
AddErrorsDraw(t) ==
    /\ frame[t].pc = "draw"
    /\ CanDraw(rng)
    /\ LET n == Max(0, frame[t].error_interval - 1) - 0 + 1
           draw == getrandbits(rng, BitLength(n))
       IN  /\ rng' = draw.rng
           /\ frame' = IF draw.value >= n THEN frame
                       ELSE [frame EXCEPT ![t].start_index = 0 + draw.value,
                                          ![t].pc = "flip"]
    /\ UNCHANGED <<ecc, dec, ae>>

\* the flipping loop and the return of add_errors
AddErrorsFlip(t) ==
    /\ frame[t].pc = "flip"
    /\ LET f == frame[t]
       IN  frame' = [frame EXCEPT
               ![t].corrupted_bits = FlipLoop(f.bits, f.start_index, f.error_interval),
               ![t].pc = "part5"]
    /\ UNCHANGED <<rng, ecc, dec, ae>>

\* Part 5 extra: decode the corrupted bits without correction
Part5(t) ==
    /\ frame[t].pc = "part5"
    /\ LET f == frame[t]
           corrupted_data_bits == hamming_7_4_decode_no_correction(f.corrupted_bits, f.pad_bits)
           safe == huffman_decode_safe(corrupted_data_bits, f.root)
       IN  frame' = [frame EXCEPT ![t].corrupted_data_bits = corrupted_data_bits,
                                  ![t].corrupted_decoded_text = safe[1],
                                  ![t].corrupted_decode_ok = safe[2],
                                  ![t].pc = "part6"]
    /\ UNCHANGED <<rng, ecc, dec, ae>>

\* Part6 with hamming_ok taken from the stream before corruption
Part6_uncorrupted(t) ==
    /\ frame[t].pc = "part6"
    /\ LET f == frame[t]
           recovered_bits == hamming_7_4_decode(f.corrupted_bits, f.pad_bits)
           recovered_decoded_text == huffman_decode(recovered_bits, f.root)
       IN  frame' = [frame EXCEPT
               ![t].recovered_bits = recovered_bits,
               ![t].recovered_decoded_text = recovered_decoded_text,
               ![t].recovered_text_ok = (recovered_decoded_text = f.text),
               ![t].huffman_ok = (f.decoded_text = f.text),
               ![t].hamming_ok = (hamming_7_4_decode(f.hamming_bits, f.pad_bits) = f.encoded_bits),
               ![t].pc = IF f.entry = "direct" THEN "done" ELSE "respond"]
    /\ UNCHANGED <<rng, ecc, dec, ae>>

\* Part 6: decode with correction, and the returned dict
Part6(t) ==
    /\ frame[t].pc = "part6"
    /\ LET f == frame[t]
           recovered_bits == hamming_7_4_decode(f.corrupted_bits, f.pad_bits)
           recovered_decoded_text == huffman_decode(recovered_bits, f.root)
       IN  frame' = [frame EXCEPT
               ![t].recovered_bits = recovered_bits,
               ![t].recovered_decoded_text = recovered_decoded_text,
               ![t].recovered_text_ok = (recovered_decoded_text = f.text),
               ![t].huffman_ok = (f.decoded_text = f.text),
               ![t].hamming_ok = (recovered_bits = f.encoded_bits),
               ![t].pc = IF f.entry = "direct" THEN "done" ELSE "respond"]
    /\ UNCHANGED <<rng, ecc, dec, ae>>

\* the values of pc inside run_full_pipeline
PipelinePcs == {"part1", "huffman", "part4", "add_errors", "draw", "flip", "part5", "part6"}

(***************************************************************************)
(* The request entry points: _validate_request and do_POST of              *)
(* api/process.py, process_text of app_enhanced.py.  data is the JSON body *)
(* of the request; data.error_interval is <<>> when the key is absent.     *)
(***************************************************************************)
RECURSIVE lstrip(_)
lstrip(text) ==
    IF text # <<>> /\ text[1] = " " THEN lstrip(Tail(text)) ELSE text

RECURSIVE rstrip(_)
rstrip(text) ==
    IF text # <<>> /\ text[Len(text)] = " "
    THEN rstrip(SubSeq(text, 1, Len(text) - 1)) ELSE text

strip(text) == rstrip(lstrip(text))

DataGet(value, default) == IF value = <<>> THEN default ELSE value[1]

\* api/process.py: _validate_request, and the 400 answer of do_POST
ApiValidate(t) ==
    /\ frame[t].pc = "validate"
    /\ frame[t].entry = "api"
    /\ LET data == frame[t].data
           text == data.text
           interval == DataGet(data.error_interval, DefaultInterval)
       IN  IF strip(text) = <<>> \/ interval < 1
           THEN frame' = [frame EXCEPT ![t].status = 400, ![t].pc = "done"]
           ELSE frame' = [frame EXCEPT ![t].text = text, ![t].error_interval = interval,
                                       ![t].pc = "part1"]
    /\ UNCHANGED <<rng, ecc, dec, ae>>

\* app_enhanced.py: process_text up to the call of run_full_pipeline
EnhancedValidate(t) ==
    /\ frame[t].pc = "validate"
    /\ frame[t].entry = "enhanced"
    /\ LET data == frame[t].data
           text == data.text
           error_interval == DataGet(data.error_interval, DefaultInterval)
       IN  IF text = <<>>
           THEN frame' = [frame EXCEPT ![t].status = 400, ![t].pc = "done"]
           ELSE frame' = [frame EXCEPT ![t].text = text,
                                       ![t].error_interval = error_interval,
                                       ![t].pc = "part1"]
    /\ UNCHANGED <<rng, ecc, dec, ae>>

\* api/process.py: _build_response and the 200 answer
ApiRespond(t) ==
    /\ frame[t].pc = "respond"
    /\ frame[t].entry = "api"
    /\ frame' = [frame EXCEPT ![t].status = 200, ![t].pc = "done"]
    /\ UNCHANGED <<rng, ecc, dec, ae>>

\* app_enhanced.py: the response of process_text; the compression ratio
\* divides by len(encoded_bits), and any exception is answered with 500
EnhancedRespond(t) ==
    /\ frame[t].pc = "respond"
    /\ frame[t].entry = "enhanced"
    /\ frame' = [frame EXCEPT
           ![t].status = IF Len(frame[t].encoded_bits) = 0 THEN 500 ELSE 200,
           ![t].pc = "done"]
    /\ UNCHANGED <<rng, ecc, dec, ae>>

(***************************************************************************)
(* A caller of the Hamming(7,4) codec: encode B, send the code word over   *)
(* a channel that flips at most one bit of each 7-bit block, decode.       *)
(***************************************************************************)
EccEncode ==
    /\ ecc.pc = "encode"
    /\ LET enc == hamming_7_4_encode(ecc.B)
       IN  ecc' = [ecc EXCEPT !.E = enc[1], !.pad = enc[2], !.pc = "channel"]
    /\ UNCHANGED <<frame, rng, dec, ae>>

\* flips[b] is the position 1..7 flipped in block b, 0 for none
RECURSIVE FlipBlocks(_, _, _)
FlipBlocks(bits, flips, b) ==
    IF b > Len(flips) THEN bits
    ELSE FlipBlocks(IF flips[b] = 0 THEN bits
                    ELSE [bits EXCEPT ![7 * (b - 1) + flips[b]] = FlipChar(@)],
                    flips, b + 1)

EccChannel ==
    /\ ecc.pc = "channel"
    /\ \E flips \in [1..(Len(ecc.E) \div 7) -> 0..7] :
          ecc' = [ecc EXCEPT !.R = FlipBlocks(ecc.E, List(flips), 1),
                             !.flips = List(flips), !.pc = "decode"]
    /\ UNCHANGED <<frame, rng, dec, ae>>

EccDecode ==
    /\ ecc.pc = "decode"
    /\ ecc' = [ecc EXCEPT !.D = hamming_7_4_decode(ecc.R, ecc.pad), !.pc = "done"]
    /\ UNCHANGED <<frame, rng, dec, ae>>

(***************************************************************************)
(* A caller of huffman_decode_safe.                                        *)
(***************************************************************************)
SafeDecode ==
    /\ dec.pc = "call"
    /\ dec' = [dec EXCEPT !.run = huffman_decode_safe_run(dec.bits, dec.tree),
                          !.pc = "done"]
    /\ UNCHANGED <<frame, rng, ecc, ae>>

(***************************************************************************)
(* A caller of add_errors, one call after the other on the process's       *)
(* generator.                                                              *)
(***************************************************************************)
\* the 0-based positions at which the strings a and b of one length differ
Diff(a, b) == {i - 1 : i \in {j \in 1..Len(a) : a[j] # b[j]}}

\* what the caller keeps of a call once it has made the next one
Summary(call) ==
    [interval |-> call.interval, seed |-> call.seed, len |-> Len(call.bits),
     start_index |-> call.start_index, flipped |-> Diff(call.bits, call.result)]

CallAddErrors(bitstring, interval, seed) ==
    /\ ae.pc \in {"first", "second"}
    /\ LET run == add_errors_run(bitstring, interval, seed, rng)
       IN  /\ rng' = run.rng
           /\ ae' = [pc |-> IF ae.pc = "first" THEN "second" ELSE "done",
                     prev |-> Summary(ae.last),
                     last |-> [bits |-> bitstring, interval |-> interval, seed |-> seed,
                               result |-> run.result, start_index |-> run.start_index]]
    /\ UNCHANGED <<frame, ecc, dec>>

(***************************************************************************)
(* Inputs of the runs.                                                     *)
(***************************************************************************)
MaxInterval == 7      \* largest error_interval besides the default
MaxReqLen == 2        \* longest text of a request
MaxBits == 8          \* longest bit string given to the Hamming codec
MaxSafeBits == 4      \* longest bit string given to huffman_decode_safe
MaxAeBits == 3        \* longest bit string given to add_errors

Texts == SeqsUpTo(Alphabet, MaxLen)
Intervals == (-1)..MaxInterval

Threads1(f) == [t \in Threads |-> IF t = 1 THEN f ELSE IdleFrame]

\* Spec: one caller runs run_full_pipeline(text, error_interval)
Init ==
    /\ \E text \in Texts, error_interval \in Intervals \cup {DefaultInterval} :
          frame = Threads1(CallFrame(text, error_interval))
    /\ rng = Unseeded
    /\ ecc = IdleEcc /\ dec = IdleDec /\ ae = IdleAe

Next ==
    \E t \in Threads :
        \/ Part1(t) \/ Huffman(t) \/ HammingEncode(t)
        \/ AddErrorsSeed(t) \/ AddErrorsDraw(t) \/ AddErrorsFlip(t)
        \/ Part5(t) \/ Part6(t)

Spec == Init /\ [][Next]_vars

\* SpecConc: two threads of one process run run_full_pipeline concurrently
ConcTexts == {<<"A">>, <<"A", "B">>, <<"A", "B", "C">>}
ConcIntervals == {1, 2, 4, 5}

InitConc ==
    /\ \E calls \in [Threads -> ConcTexts \X ConcIntervals] :
          frame = [t \in Threads |-> CallFrame(calls[t][1], calls[t][2])]
    /\ rng = Unseeded
    /\ ecc = IdleEcc /\ dec = IdleDec /\ ae = IdleAe

SpecConc == InitConc /\ [][Next]_vars

\* SpecWide: a caller runs run_full_pipeline(text, error_interval) with an
\* interval of a block's length or more while a second thread of the
\* process runs the pipeline too, so that the caller's random.randint may
\* return the first or a later value after random.seed(2024)
WideIntervals == {MaxInterval, MaxInterval + 1, DefaultInterval}

InitWide ==
    /\ \E text \in Texts, error_interval \in WideIntervals :
          frame = [t \in Threads |->
                      IF t = 1 THEN CallFrame(text, error_interval)
                      ELSE CallFrame(<<"A">>, MaxInterval)]
    /\ rng = Unseeded
    /\ ecc = IdleEcc /\ dec = IdleDec /\ ae = IdleAe

SpecWide == InitWide /\ [][Next]_vars

\* SpecReq: one request arrives at one of the two entry points
InitReq ==
    /\ \E entry \in {"api", "enhanced"}, text \in SeqsUpTo(Alphabet, MaxReqLen),
          error_interval \in {<<>>} \cup {<<n>> : n \in Intervals} :
          frame = Threads1(RequestFrame(entry, [text |-> text,
                                                error_interval |-> error_interval]))
    /\ rng = Unseeded
    /\ ecc = IdleEcc /\ dec = IdleDec /\ ae = IdleAe

NextReq ==
    \E t \in Threads :
        \/ ApiValidate(t) \/ EnhancedValidate(t)
        \/ Part1(t) \/ Huffman(t) \/ HammingEncode(t)
        \/ AddErrorsSeed(t) \/ AddErrorsDraw(t) \/ AddErrorsFlip(t)
        \/ Part5(t) \/ Part6(t)
        \/ ApiRespond(t) \/ EnhancedRespond(t)

SpecReq == InitReq /\ [][NextReq]_vars

\* SpecEcc: the Hamming codec on every bit string B, over a noisy channel
InitEcc ==
    /\ \E B \in SeqsUpTo(Bit, MaxBits) : ecc = [IdleEcc EXCEPT !.pc = "encode", !.B = B]
    /\ frame = Threads1(IdleFrame) /\ rng = Unseeded /\ dec = IdleDec /\ ae = IdleAe

NextEcc == EccEncode \/ EccChannel \/ EccDecode

SpecEcc == InitEcc /\ [][NextEcc]_vars

\* SpecSafe: huffman_decode_safe on every bit string and every built tree
InitSafe ==
    /\ \E text \in Texts, bits \in SeqsUpTo(Bit, MaxSafeBits) :
          LET tree == build_huffman_tree(compute_symbol_probabilities(text))
          IN  dec = [IdleDec EXCEPT !.pc = "call", !.tree = tree,
                                    !.codes = build_huffman_codes(tree), !.bits = bits]
    /\ frame = Threads1(IdleFrame) /\ rng = Unseeded /\ ecc = IdleEcc /\ ae = IdleAe

NextSafe == SafeDecode

SpecSafe == InitSafe /\ [][NextSafe]_vars

\* SpecTree: either a caller of run_full_pipeline or a caller of
\* huffman_decode_safe on the tree of a text and an arbitrary bit sequence
InitTree == Init \/ InitSafe

NextTree == Next \/ NextSafe

SpecTree == InitTree /\ [][NextTree]_vars

\* SpecErr: two sequential calls of add_errors on the same generator
InitErr ==
    /\ ae = [IdleAe EXCEPT !.pc = "first"] /\ rng = Unseeded
    /\ frame = Threads1(IdleFrame) /\ ecc = IdleEcc /\ dec = IdleDec

NextErr ==
    \E bitstring \in SeqsUpTo(Bit, MaxAeBits), interval \in Intervals, seed \in Seeds :
        CallAddErrors(bitstring, interval, seed)

SpecErr == InitErr /\ [][NextErr]_vars

(***************************************************************************)
(* Properties.                                                             *)
(***************************************************************************)
Symbols(text) == {text[i] : i \in 1..Len(text)}

\* the thread has run Parts 1-3 of run_full_pipeline
HuffmanDone(f) == f.pc \in {"part4", "add_errors", "draw", "flip", "part5", "part6",
                            "respond", "done"} /\ f.entry # "none"

\* the thread has returned from run_full_pipeline
PipelineDone(f) == f.pc \in {"respond", "done"} /\ f.entry # "none" /\ f.status # 400

IsPrefix(p, c) == Len(p) <= Len(c) /\ SubSeq(c, 1, Len(p)) = p

\* C1: for every non-empty text T, single-symbol texts included, decoding
\* the encoding of T with the tree and the table built from T's own
\* distribution gives T back.
C1_RoundTrip ==
    \A t \in Threads :
        HuffmanDone(frame[t]) /\ frame[t].text # <<>>
            => /\ frame[t].encoded_bits # <<>>
               /\ frame[t].decoded_text = frame[t].text

C1_Witness ==
    \E t \in Threads :
        /\ HuffmanDone(frame[t])
        /\ Cardinality(Symbols(frame[t].text)) = 1
        /\ Len(frame[t].text) >= 2
        /\ frame[t].decoded_text = frame[t].text

\* C2: the code table of a non-empty distribution gives every symbol of the
\* distribution a code of length >= 1, and no symbol's code is a prefix of
\* another symbol's code.
C2_PrefixFree ==
    \A t \in Threads :
        HuffmanDone(frame[t]) /\ frame[t].text # <<>>
            => LET codes == frame[t].codes
               IN  /\ DOMAIN codes = Symbols(frame[t].text)
                   /\ \A a \in DOMAIN codes : Len(codes[a]) >= 1
                   /\ \A a, b \in DOMAIN codes : a # b => ~IsPrefix(codes[a], codes[b])

C2_Witness ==
    \E t \in Threads :
        /\ HuffmanDone(frame[t])
        /\ Cardinality(DOMAIN frame[t].codes) >= 3
        /\ \E a, b \in DOMAIN frame[t].codes : Len(frame[t].codes[a]) < Len(frame[t].codes[b])

(***************************************************************************)
(* Kraft sum of a code table, scaled by 2^depth so that it is an integer,  *)
(* depth being the length of the longest code: the sum of 2^(-len(code))   *)
(* is KraftScaled(codes) / 2^Depth(codes).                                 *)
(***************************************************************************)
Depth(codes) ==
    IF DOMAIN codes = {} THEN 0
    ELSE CHOOSE d \in {Len(codes[a]) : a \in DOMAIN codes} :
             \A a \in DOMAIN codes : Len(codes[a]) <= d

RECURSIVE SumOver(_, _, _)
SumOver(codes, keys, depth) ==
    IF keys = {} THEN 0
    ELSE LET a == CHOOSE k \in keys : TRUE
         IN  Pow2(depth - Len(codes[a])) + SumOver(codes, keys \ {a}, depth)

KraftScaled(codes) == SumOver(codes, DOMAIN codes, Depth(codes))

\* C9 as claimed: for every code table built from a non-empty distribution,
\* a single-symbol distribution included, the sum over the symbols of
\* 2^(-len(code)) is exactly 1.
C9_KraftEquality ==
    \A t \in Threads :
        HuffmanDone(frame[t]) /\ frame[t].text # <<>>
            => KraftScaled(frame[t].codes) = Pow2(Depth(frame[t].codes))

\* C9 as amended: the sum of 2^(-len(code)) is exactly 1 for a table built
\* from two or more distinct symbols; for a single-symbol distribution the
\* table is {symbol: "0"} and the sum is 1/2.
C9_KraftAmended ==
    \A t \in Threads :
        HuffmanDone(frame[t]) /\ frame[t].text # <<>>
            => LET codes == frame[t].codes
               IN  IF Cardinality(Symbols(frame[t].text)) >= 2
                   THEN KraftScaled(codes) = Pow2(Depth(codes))
                   ELSE /\ codes = (frame[t].text[1] :> <<"0">>)
                        /\ 2 * KraftScaled(codes) = Pow2(Depth(codes))

C9_Witness ==
    \E t \in Threads :
        /\ HuffmanDone(frame[t])
        /\ Cardinality(Symbols(frame[t].text)) = 1
        /\ 2 * KraftScaled(frame[t].codes) = Pow2(Depth(frame[t].codes))

\* the strings a and b of one length differ in at most one place of each
\* 7-bit block
AtMostOneFlipPerBlock(a, b) ==
    \A k \in 0..((Len(a) \div 7) - 1) :
        Cardinality({i \in (7 * k + 1)..(7 * k + 7) : a[i] # b[i]}) <= 1

\* C6 as claimed: hamming_ok is the ECC round trip without corruption,
\* hamming_7_4_decode(hamming_bits, pad_bits) == encoded_bits, whatever
\* error_interval is and whichever bits the corruption step flipped.
C6_UncorruptedRoundTrip ==
    \A t \in Threads :
        PipelineDone(frame[t])
            => frame[t].hamming_ok =
                   (hamming_7_4_decode(frame[t].hamming_bits, frame[t].pad_bits)
                        = frame[t].encoded_bits)

\* C6 as amended: hamming_ok reports whether decoding the corrupted stream
\* with correction reproduces the pre-ECC bitstream,
\* hamming_7_4_decode(corrupted_bits, pad_bits) == encoded_bits; it is true
\* whenever the corruption step flipped at most one bit of each 7-bit block.
C6_CorruptedRoundTrip ==
    \A t \in Threads :
        PipelineDone(frame[t])
            => /\ frame[t].hamming_ok =
                      (hamming_7_4_decode(frame[t].corrupted_bits, frame[t].pad_bits)
                           = frame[t].encoded_bits)
               /\ AtMostOneFlipPerBlock(frame[t].hamming_bits, frame[t].corrupted_bits)
                      => frame[t].hamming_ok

C6_Witness ==
    \E t \in Threads :
        /\ PipelineDone(frame[t])
        /\ frame[t].error_interval >= 2
        /\ frame[t].corrupted_bits # frame[t].hamming_bits
        /\ ~frame[t].hamming_ok
        /\ hamming_7_4_decode(frame[t].hamming_bits, frame[t].pad_bits) = frame[t].encoded_bits

\* C3: for every bit string B, the empty one and lengths that are no
\* multiple of 4 included, (E, pad) = hamming_7_4_encode(B) has
\* pad = (4 - len(B) mod 4) mod 4 and len(E) = 7 * (len(B) + pad) / 4, and
\* hamming_7_4_decode(E, pad) gives B back.
C3_EccRoundTrip ==
    /\ ecc.pc \in {"channel", "decode", "done"}
           => /\ ecc.pad = (4 - (Len(ecc.B) % 4)) % 4
              /\ 4 * Len(ecc.E) = 7 * (Len(ecc.B) + ecc.pad)
    /\ ecc.pc = "done" /\ ecc.R = ecc.E => ecc.D = ecc.B

C3_Witness ==
    /\ ecc.pc = "done"
    /\ ecc.R = ecc.E
    /\ Len(ecc.B) > 4
    /\ ecc.pad > 0
    /\ ecc.D = ecc.B

\* C4: when exactly one bit of a 7-bit code word is flipped, whichever of
\* its 7 positions it is, hamming_7_4_decode returns the 4 data bits; and a
\* stream of several blocks, each with at most one flipped bit, decodes to
\* the bits that were encoded.
C4_SingleErrorCorrected ==
    ecc.pc = "done" /\ (\E b \in 1..Len(ecc.flips) : ecc.flips[b] # 0)
        => ecc.D = ecc.B

C4_Witness ==
    /\ ecc.pc = "done"
    /\ Len(ecc.flips) = 2
    /\ ecc.flips[1] # 0 /\ ecc.flips[2] # 0 /\ ecc.flips[1] # ecc.flips[2]
    /\ ecc.pad = 0
    /\ Cardinality(Diff(ecc.E, ecc.R)) = 2
    /\ ecc.D = ecc.B

\* C5: when several run_full_pipeline calls run concurrently in threads of
\* one process, each returns the corrupted_bits that the same
\* (text, error_interval) gives when run alone, in every interleaving of
\* the steps of add_errors.
C5_ThreadsIsolated ==
    \A t \in Threads :
        PipelineDone(frame[t])
            => frame[t].corrupted_bits =
                   add_errors(frame[t].hamming_bits, frame[t].error_interval, PipelineSeed)

\* the flag is false exactly when the traversal met a missing child
CutShort(run) == run.node = None /\ run.taken >= 1

\* C7 as claimed: huffman_decode_safe returns false if the traversal was cut
\* short by a missing child, and true only if after the last bit the
\* traversal is back at the root, no partial code dangling.
C7_TrueOnlyAtRoot ==
    dec.pc = "done"
        => /\ CutShort(dec.run) => ~dec.run.ok
           /\ dec.run.ok => dec.run.node = dec.tree.root

\* some symbol's code starts with the bits q
PrefixOfACode(q, codes) == \E a \in DOMAIN codes : IsPrefix(q, codes[a])

\* C7 as amended: with a tree, huffman_decode_safe returns false if and only
\* if the traversal was cut short by a missing child, the bits read so far
\* being the codes of the returned text followed by bits that start no
\* code; it returns true when every bit was followed to an existing child,
\* the bit sequence being the codes of the returned text followed by
\* nothing or by the proper beginning of a code (a dangling partial code).
\* Without a tree it returns the empty text and true.
C7_FalseIffCutShort ==
    dec.pc = "done"
        => LET run == dec.run
               read == SubSeq(dec.bits, 1, run.taken)
               coded == huffman_encode(run.text, dec.codes)
               rest == SubSeq(read, Len(coded) + 1, Len(read))
           IN  IF dec.tree.root = None
               THEN run.ok /\ run.text = <<>>
               ELSE /\ run.ok = ~CutShort(run)
                    /\ IsPrefix(coded, read)
                    /\ run.ok => /\ run.taken = Len(dec.bits)
                                 /\ PrefixOfACode(rest, dec.codes)
                                 /\ rest \notin {dec.codes[a] : a \in DOMAIN dec.codes}
                                 /\ (rest = <<>>) = (run.node = dec.tree.root)
                    /\ ~run.ok => /\ rest # <<>>
                                  /\ ~PrefixOfACode(rest, dec.codes)
                                  /\ PrefixOfACode(SubSeq(rest, 1, Len(rest) - 1), dec.codes)

C7_Witness ==
    /\ dec.pc = "done"
    /\ dec.run.ok
    /\ dec.run.text # <<>>
    /\ dec.run.node # dec.tree.root
    /\ dec.run.taken = Len(dec.bits)

\* C8: a request whose error_interval is less than 1 never reaches
\* run_full_pipeline and gets no successful answer, at the handler of
\* api/process.py and at process_text of app_enhanced.py.
C8_IntervalRejected ==
    \A t \in Threads :
        /\ frame[t].entry \in {"api", "enhanced"}
        /\ DataGet(frame[t].data.error_interval, DefaultInterval) < 1
        => /\ frame[t].pc \notin PipelinePcs \cup {"respond"}
           /\ frame[t].status # 200

\* C10: add_errors returns bits unchanged when bits is empty or
\* interval <= 0; otherwise the result has the length of bits and differs
\* from it at exactly the positions start + k * interval below len(bits),
\* with start in [0, interval - 1], start = 0 when interval = 1, and start
\* fixed by (interval, seed): two sequential calls with the same
\* (interval, seed) on inputs of the same length flip the same positions.
C10_StrideFlips ==
    ae.pc \in {"second", "done"}
        => LET call == ae.last
               len == Len(call.bits)
           IN  IF call.bits = <<>> \/ call.interval <= 0
               THEN call.result = call.bits
               ELSE /\ Len(call.result) = len
                    /\ call.start_index \in 0..(call.interval - 1)
                    /\ call.interval = 1 => call.start_index = 0
                    /\ Diff(call.bits, call.result) =
                           {q \in 0..(len - 1) :
                               q >= call.start_index
                               /\ (q - call.start_index) % call.interval = 0}
                    /\ ae.pc = "done" /\ ae.prev.len > 0 /\ ae.prev.interval = call.interval
                         /\ ae.prev.seed = call.seed
                           => /\ ae.prev.start_index = call.start_index
                              /\ ae.prev.len = len
                                   => ae.prev.flipped = Diff(call.bits, call.result)

C10_Witness ==
    /\ ae.pc = "done"
    /\ ae.last.interval = 2 /\ ae.prev.interval = 2
    /\ ae.last.seed = PipelineSeed /\ ae.prev.seed = PipelineSeed
    /\ ae.prev.len = 3 /\ Len(ae.last.bits) = 3
    /\ ae.last.start_index = 1
    /\ ae.prev.flipped = {1}
    /\ Diff(ae.last.bits, ae.last.result) = {1}

\* C11: run_full_pipeline on the empty text, for any error_interval, raises
\* no fault and returns an empty distribution, an empty code table, empty
\* bit sequences at every stage (encoded, Hamming, corrupted,
\* corrupted-data, recovered), empty decoded texts, pad_bits = 0, and the
\* four flags huffman_ok, hamming_ok, corrupted_decode_ok and
\* recovered_text_ok true.
C11_EmptyText ==
    \A t \in Threads :
        PipelineDone(frame[t]) /\ frame[t].text = <<>>
            => LET f == frame[t]
               IN  /\ f.probs = <<>>
                   /\ f.root.root = None
                   /\ f.codes = EmptyDict
                   /\ f.encoded_bits = <<>> /\ f.hamming_bits = <<>>
                   /\ f.corrupted_bits = <<>> /\ f.corrupted_data_bits = <<>>
                   /\ f.recovered_bits = <<>>
                   /\ f.decoded_text = <<>> /\ f.corrupted_decoded_text = <<>>
                   /\ f.recovered_decoded_text = <<>>
                   /\ f.pad_bits = 0
                   /\ f.huffman_ok /\ f.hamming_ok
                   /\ f.corrupted_decode_ok /\ f.recovered_text_ok

C11_Witness ==
    \E t \in Threads :
        /\ PipelineDone(frame[t])
        /\ frame[t].text = <<>>
        /\ frame[t].error_interval = 1
        /\ frame[t].corrupted_decode_ok
        /\ frame[t].hamming_ok

\* C12: for every text and every error_interval >= 7, whatever start offset
\* the corruption step draws, at most one bit of each 7-bit block is
\* flipped, and run_full_pipeline returns recovered_bits equal to
\* encoded_bits, recovered_decoded_text equal to text and recovered_text_ok
\* true.
C12_WideIntervalRecovered ==
    \A t \in Threads :
        PipelineDone(frame[t]) /\ frame[t].error_interval >= 7
            => /\ AtMostOneFlipPerBlock(frame[t].hamming_bits, frame[t].corrupted_bits)
               /\ frame[t].recovered_bits = frame[t].encoded_bits
               /\ frame[t].recovered_decoded_text = frame[t].text
               /\ frame[t].recovered_text_ok

C12_Witness ==
    \E t \in Threads :
        /\ PipelineDone(frame[t])
        /\ frame[t].error_interval >= 7
        /\ Len(frame[t].text) >= 2
        /\ frame[t].corrupted_data_bits # frame[t].encoded_bits
        /\ frame[t].recovered_bits = frame[t].encoded_bits
        /\ frame[t].recovered_text_ok

\* every internal node of the tree has a left and a right child
FullTree(tree) ==
    \A n \in 1..Len(tree.nodes) :
        tree.nodes[n].symbol = NoSymbol
            => tree.nodes[n].left # None /\ tree.nodes[n].right # None

\* C13: in a tree built by build_huffman_tree from a distribution with two
\* or more distinct symbols every internal node has both children, so
\* huffman_decode_safe reads every bit sequence to its end and returns the
\* flag true; run_full_pipeline therefore reports corrupted_decode_ok true
\* for every text with two or more distinct symbols, however the bits were
\* corrupted, and the flag is false only for a single-symbol text.
C13_FullTreeAlwaysOk ==
    /\ dec.pc \in {"call", "done"} /\ Cardinality(DOMAIN dec.codes) >= 2
           => /\ FullTree(dec.tree)
              /\ dec.pc = "done" => dec.run.ok /\ dec.run.taken = Len(dec.bits)
    /\ \A t \in Threads :
           /\ HuffmanDone(frame[t]) /\ Cardinality(Symbols(frame[t].text)) >= 2
                  => FullTree(frame[t].root)
           /\ PipelineDone(frame[t])
                  => /\ Cardinality(Symbols(frame[t].text)) >= 2
                            => frame[t].corrupted_decode_ok
                     /\ ~frame[t].corrupted_decode_ok
                            => Cardinality(Symbols(frame[t].text)) = 1

C13_Witness ==
    \E t \in Threads :
        /\ PipelineDone(frame[t])
        /\ Cardinality(Symbols(frame[t].text)) >= 3
        /\ frame[t].corrupted_data_bits # frame[t].encoded_bits
        /\ frame[t].corrupted_decoded_text # frame[t].text
        /\ huffman_encode(frame[t].corrupted_decoded_text, frame[t].codes)
               # frame[t].corrupted_data_bits
        /\ frame[t].corrupted_decode_ok
=============================================================================
